---- MODULE Spec2Model ----
(***************************************************************************)
(* A model of mcp-filter: the rule engine (filter_tools), the build phase  *)
(* (build_server) and the serve phase (FilterApplication.call_tool) of the *)
(* filtering proxy in src/src/mcp_filter/filter_server.py.                 *)
(*                                                                         *)
(* Strings are sequences of one-character strings, so that prefixing is    *)
(* concatenation and a regular expression is matched position by position. *)
(* An Optional[str] is a sequence of length at most one: <<>> is None and  *)
(* <<s>> is the string s.                                                  *)
(***************************************************************************)
EXTENDS Integers, Sequences, FiniteSets, TLC

VARIABLES
    cfg,             \* ServerConfig: rules, include_health_tool, show_token_estimates
    upstream_tools,  \* the catalog the upstream serves when build_server lists it
    phase,           \* where the run stands: "start", "serving", "failed", or, for a
                     \* function called on its own, before and after the call
    filtered,        \* outcome of a direct filter_tools call
    build_error,     \* the exception build_server raised, or NoError
    app,             \* the FilterApplication build_server returned, or NoApp
    calls,           \* the client's call_tool coroutines, by call id
    upstream_calls,  \* FakeUpstream.calls, each entry tagged with the calling coroutine
    listed,          \* what the last list_public_tools call returned, or NotRun
    inputs,          \* the arguments of a function that is called on its own
    output           \* what that function returned or raised, or NotRun

vars == <<cfg, upstream_tools, phase, filtered, build_error, app, calls,
          upstream_calls, listed, inputs, output>>

(***************************************************************************)
(* Bounds                                                                  *)
(***************************************************************************)
MaxCatalog == 4

MaxPatterns == 2

(***************************************************************************)
(* Strings and sequences                                                   *)
(***************************************************************************)
Range(s) == {s[i] : i \in 1..Len(s)}

SeqsUpTo(S, n) == UNION {[1..k -> S] : k \in 0..n}

\* Optional[str] `or ""`: None and "" both give "".
OrEmpty(opt) == IF opt = <<>> THEN <<>> ELSE opt[1]

\* Python truthiness of an Optional[str].
Truthy(opt) == opt # <<>> /\ opt[1] # <<>>

(***************************************************************************)
(* Regular expressions (Python re, no flags) over the pattern alphabet:    *)
(* literal characters, "^", "$" and "(".  No name holds a newline, so "$"  *)
(* matches at the end of the name only.  A "(" is never closed in this     *)
(* alphabet: re.compile raises re.error.                                   *)
(***************************************************************************)
RECURSIVE MatchHere(_, _, _, _)
MatchHere(pat, k, name, pos) ==
    IF k > Len(pat) THEN TRUE
    ELSE CASE pat[k] = "^" -> pos = 1 /\ MatchHere(pat, k + 1, name, pos)
           [] pat[k] = "$" -> pos = Len(name) + 1 /\ MatchHere(pat, k + 1, name, pos)
           [] OTHER -> /\ pos <= Len(name)
                       /\ name[pos] = pat[k]
                       /\ MatchHere(pat, k + 1, name, pos + 1)

\* Faulty variant: re.match in place of re.search, a match at the start of the name only.
pattern_match(pat, name) == MatchHere(pat, 1, name, 1)

\* pattern.search(name): a match starting at some position of the name.
pattern_search(pat, name) == \E pos \in 1..(Len(name) + 1) : MatchHere(pat, 1, name, pos)

\* re.compile(pattern) raises re.error.
re_error(pat) == \E k \in 1..Len(pat) : pat[k] = "("

_matches_any(name, patterns) == \E i \in 1..Len(patterns) : pattern_search(patterns[i], name)

\* [_compile_pattern(pat) for pat in patterns]: the first pattern that does not
\* compile raises; <<>> when all compile.
_compile_pattern(patterns) ==
    IF \E i \in 1..Len(patterns) : re_error(patterns[i])
    THEN LET i == CHOOSE i \in 1..Len(patterns) :
                      /\ re_error(patterns[i])
                      /\ \A j \in 1..(i - 1) : ~re_error(patterns[j])
         IN <<patterns[i]>>
    ELSE <<>>

(***************************************************************************)
(* Outcomes: a returned value or a raised ConfigError.  Every ConfigError  *)
(* carries a message; kind names the message and info its interpolations.  *)
(***************************************************************************)
Returned(v) == [ok |-> TRUE, value |-> v, kind |-> "none", info |-> <<>>]

Raised(k, i) == [ok |-> FALSE, value |-> <<>>, kind |-> k, info |-> i]

(***************************************************************************)
(* filter_tools                                                            *)
(***************************************************************************)
ExposedTool(public_name, tool) ==
    [public_name |-> public_name, upstream_name |-> tool.name,
     description |-> tool.description, input_schema |-> tool.input_schema]

\* Faulty variant: the exact names and the patterns are unioned.
allow_step_union(tools, rules) ==
    IF rules.allow_tools # <<>>
    THEN LET keep(t) == \/ t.name \in Range(rules.allow_tools)
                        \/ _matches_any(t.name, rules.allow_patterns)
         IN Returned(SelectSeq(tools, keep))
    ELSE IF rules.allow_patterns # <<>>
    THEN IF _compile_pattern(rules.allow_patterns) # <<>>
         THEN Raised("InvalidPattern", _compile_pattern(rules.allow_patterns))
         ELSE LET keep(t) == _matches_any(t.name, rules.allow_patterns)
              IN Returned(SelectSeq(tools, keep))
    ELSE Returned(tools)

\* The allow branch: exact names first, then patterns, then allow-all.
allow_step(tools, rules) ==
    IF rules.allow_tools # <<>>
    THEN LET allowed_names == Range(rules.allow_tools)
             keep(t) == t.name \in allowed_names
         IN Returned(SelectSeq(tools, keep))
    ELSE IF rules.allow_patterns # <<>>
    THEN IF _compile_pattern(rules.allow_patterns) # <<>>
         THEN Raised("InvalidPattern", _compile_pattern(rules.allow_patterns))
         ELSE LET keep(t) == _matches_any(t.name, rules.allow_patterns)
              IN Returned(SelectSeq(tools, keep))
    ELSE Returned(tools)

\* Faulty variant: the deny patterns are compiled and never applied.
deny_step_unapplied(allowed, rules) ==
    IF rules.deny_patterns # <<>> /\ _compile_pattern(rules.deny_patterns) # <<>>
    THEN Raised("InvalidPattern", _compile_pattern(rules.deny_patterns))
    ELSE Returned(allowed)

\* Faulty variant: deny is skipped when the exact-name branch fired.
deny_step_unless_exact(allowed, rules) ==
    IF rules.deny_patterns # <<>> /\ rules.allow_tools = <<>>
    THEN IF _compile_pattern(rules.deny_patterns) # <<>>
         THEN Raised("InvalidPattern", _compile_pattern(rules.deny_patterns))
         ELSE LET keep(t) == ~_matches_any(t.name, rules.deny_patterns)
              IN Returned(SelectSeq(allowed, keep))
    ELSE Returned(allowed)

\* The deny filter over what the allow branch kept.
deny_step(allowed, rules) ==
    IF rules.deny_patterns # <<>>
    THEN IF _compile_pattern(rules.deny_patterns) # <<>>
         THEN Raised("InvalidPattern", _compile_pattern(rules.deny_patterns))
         ELSE LET keep(t) == ~_matches_any(t.name, rules.deny_patterns)
              IN Returned(SelectSeq(allowed, keep))
    ELSE Returned(allowed)

\* Faulty variant: a repeated public name is skipped, the first descriptor kept.
RECURSIVE rename_loop_dedup(_, _, _, _, _)
rename_loop_dedup(allowed, i, rename_prefix, seen, exposed) ==
    IF i > Len(allowed) THEN Returned(exposed)
    ELSE LET tool == allowed[i]
             public_name == rename_prefix \o tool.name
         IN IF \E e \in seen : e[1] = public_name
            THEN rename_loop_dedup(allowed, i + 1, rename_prefix, seen, exposed)
            ELSE rename_loop_dedup(allowed, i + 1, rename_prefix,
                                   seen \cup {<<public_name, tool.name>>},
                                   Append(exposed, ExposedTool(public_name, tool)))

\* Faulty variant: the prefix is appended to the upstream name.
RECURSIVE rename_loop_suffix(_, _, _, _, _)
rename_loop_suffix(allowed, i, rename_prefix, seen, exposed) ==
    IF i > Len(allowed) THEN Returned(exposed)
    ELSE LET tool == allowed[i]
             public_name == tool.name \o rename_prefix
         IN IF \E e \in seen : e[1] = public_name
            THEN LET conflict == (CHOOSE e \in seen : e[1] = public_name)[2]
                 IN Raised("NameCollision", <<public_name, conflict, tool.name>>)
            ELSE rename_loop_suffix(allowed, i + 1, rename_prefix,
                                    seen \cup {<<public_name, tool.name>>},
                                    Append(exposed, ExposedTool(public_name, tool)))

\* Faulty variant: the loop does not look the public name up in seen.
RECURSIVE rename_loop_unchecked(_, _, _, _, _)
rename_loop_unchecked(allowed, i, rename_prefix, seen, exposed) ==
    IF i > Len(allowed) THEN Returned(exposed)
    ELSE LET tool == allowed[i]
             public_name == rename_prefix \o tool.name
         IN rename_loop_unchecked(allowed, i + 1, rename_prefix,
                                  seen \cup {<<public_name, tool.name>>},
                                  Append(exposed, ExposedTool(public_name, tool)))

\* The renaming loop: seen maps each public name produced so far to its source.
RECURSIVE rename_loop(_, _, _, _, _)
rename_loop(allowed, i, rename_prefix, seen, exposed) ==
    IF i > Len(allowed) THEN Returned(exposed)
    ELSE LET tool == allowed[i]
             public_name == rename_prefix \o tool.name
         IN IF \E e \in seen : e[1] = public_name
            THEN LET conflict == (CHOOSE e \in seen : e[1] = public_name)[2]
                 IN Raised("NameCollision", <<public_name, conflict, tool.name>>)
            ELSE rename_loop(allowed, i + 1, rename_prefix,
                             seen \cup {<<public_name, tool.name>>},
                             Append(exposed, ExposedTool(public_name, tool)))

filter_tools(tools, rules) ==
    IF tools = <<>> THEN Returned(<<>>)
    ELSE LET a == allow_step(tools, rules)
         IN IF ~a.ok THEN a
            ELSE LET d == deny_step(a.value, rules)
                 IN IF ~d.ok THEN d
                    ELSE IF d.value = <<>> THEN Raised("NoToolsRemaining", <<>>)
                    ELSE rename_loop(d.value, 1, OrEmpty(rules.rename_prefix), {}, <<>>)

(***************************************************************************)
(* Input schemas (JSON objects).  type is "absent", "object" or "string";   *)
(* properties_kind is "absent", "mapping" (with the keys properties, each  *)
(* holding {}) or "list" (not a mapping); required is a list when present; *)
(* additionalProperties is "absent", "true", "false", "empty_schema" ({})  *)
(* or "schema" ({"type": "string"}).                                       *)
(***************************************************************************)
Schema(type, properties_kind, properties, required_present, required, additional) ==
    [type |-> type, properties_kind |-> properties_kind, properties |-> properties,
     required_present |-> required_present, required |-> required,
     additionalProperties |-> additional]

\* {"type": "object", "properties": {"x": {}}, "required": ["x"]}
SqlSchema == Schema("object", "mapping", {"x"}, TRUE, <<"x">>, "absent")

ToolSchema(name, description, input_schema) ==
    [name |-> name, description |-> description, input_schema |-> input_schema]

(***************************************************************************)
(* Inputs of the rule engine                                               *)
(***************************************************************************)
NameA == <<"a">>

NameB == <<"b">>

NameAB == <<"a", "b">>

FilterNames == {NameA, NameB, NameAB}

\* b (found in b and in ab), ^a$ (found in a only), and ( (does not compile).
PatternUniverse == {<<"b">>, <<"^", "a", "$">>, <<"(">>}

AllowToolLists == {<<>>, <<NameA>>, <<NameA, NameAB>>}

PrefixUniverse == {<<>>, <<<<>>>>, <<NameA>>}

\* Catalogs the upstream may return, duplicate names included; the descriptors of
\* one catalog carry distinct descriptions (their position).
FilterCatalogs ==
    {[i \in 1..Len(ns) |-> ToolSchema(ns[i], i, SqlSchema)] : ns \in SeqsUpTo(FilterNames, MaxCatalog)}

AllowRules(allow_tools, allow_patterns, deny_patterns, rename_prefix) ==
    [allow_tools |-> allow_tools, allow_patterns |-> allow_patterns,
     deny_patterns |-> deny_patterns, rename_prefix |-> rename_prefix]

FilterRules ==
    {AllowRules(at, ap, dp, pre) :
        at \in AllowToolLists,
        ap \in SeqsUpTo(PatternUniverse, MaxPatterns),
        dp \in SeqsUpTo(PatternUniverse, MaxPatterns),
        pre \in PrefixUniverse}

ServerConfig(rules, include_health_tool, show_token_estimates) ==
    [rules |-> rules, include_health_tool |-> include_health_tool,
     show_token_estimates |-> show_token_estimates]

NoError == Returned(<<>>)

NoApp == [built |-> FALSE]

NotRun == Raised("not run", <<>>)

NoInputs == <<>>

(***************************************************************************)
(* The rule engine as a pure function: filter_tools applied to a catalog   *)
(* and a rule set drawn from the bounded inputs.                           *)
(***************************************************************************)
FilterInit ==
    /\ upstream_tools \in FilterCatalogs
    /\ \E r \in FilterRules :
          /\ Len(r.allow_patterns) + Len(r.deny_patterns) <= MaxPatterns
          /\ cfg = ServerConfig(r, FALSE, FALSE)
    /\ phase = "filter"
    /\ filtered = NotRun
    /\ build_error = NoError
    /\ app = NoApp
    /\ calls = <<>>
    /\ upstream_calls = <<>>
    /\ listed = NotRun
    /\ inputs = NoInputs
    /\ output = NotRun

FilterTools ==
    /\ phase = "filter"
    /\ filtered' = filter_tools(upstream_tools, cfg.rules)
    /\ phase' = "filtered"
    /\ UNCHANGED <<cfg, upstream_tools, build_error, app, calls,
                   upstream_calls, listed, inputs, output>>

FilterNext == FilterTools

FilterSpec == FilterInit /\ [][FilterNext]_vars

(***************************************************************************)
(* Character order (code points) and sorted()                              *)
(***************************************************************************)
Alphabet == <<"_", "a", "b", "e", "h", "l", "t", "x", "y">>

Ord(c) == CHOOSE i \in 1..Len(Alphabet) : Alphabet[i] = c

\* s < t for two strings, as Python compares them.
RECURSIVE StrLess(_, _)
StrLess(s, t) ==
    IF t = <<>> THEN FALSE
    ELSE IF s = <<>> THEN TRUE
    ELSE IF s[1] = t[1] THEN StrLess(Tail(s), Tail(t))
    ELSE Ord(s[1]) < Ord(t[1])

\* Faulty variant: the names are left in catalog order.
sorted_unsorted(xs) == xs

\* sorted(xs) for a sequence of strings (insertion into the sorted prefix).
RECURSIVE sorted(_)
sorted(xs) ==
    IF xs = <<>> THEN <<>>
    ELSE LET rest == sorted(Tail(xs))
             lt(y) == StrLess(y, xs[1])
             ge(y) == ~StrLess(y, xs[1])
         IN SelectSeq(rest, lt) \o <<xs[1]>> \o SelectSeq(rest, ge)

\* sorted(keys) for a set of one-character keys.
sorted_keys(keys) == LET in_keys(c) == c \in keys IN SelectSeq(Alphabet, in_keys)

(***************************************************************************)
(* _validate_arguments                                                     *)
(***************************************************************************)
\* args is [is_mapping, items]: items is the set of <<key, value>> pairs.
Keys(args) == {p[1] : p \in args.items}

\* Python truthiness of schema.get("additionalProperties", True).
additional_allowed(schema) == schema.additionalProperties \in {"absent", "true", "schema"}

\* Faulty variant: the additional-properties check runs before the required keys
\* are looked for.
_validate_arguments_extras_first(schema, args) ==
    IF ~args.is_mapping THEN Raised("InvalidArguments", <<>>)
    ELSE LET required == schema.required
             missing(i) == required[i] \notin Keys(args)
         IN IF /\ schema.type = "object"
               /\ schema.properties_kind # "list"
               /\ ~additional_allowed(schema)
               /\ Keys(args) \ schema.properties # {}
            THEN Raised("DisallowedArguments", sorted_keys(Keys(args) \ schema.properties))
            ELSE IF \E i \in 1..Len(required) : missing(i)
            THEN LET i == CHOOSE i \in 1..Len(required) :
                              missing(i) /\ \A j \in 1..(i - 1) : ~missing(j)
                 IN Raised("MissingRequiredArgument", <<required[i]>>)
            ELSE Returned(<<>>)

_validate_arguments(schema, args) ==
    IF ~args.is_mapping THEN Raised("InvalidArguments", <<>>)
    ELSE LET required == schema.required
             missing(i) == required[i] \notin Keys(args)
         IN IF \E i \in 1..Len(required) : missing(i)
            THEN LET i == CHOOSE i \in 1..Len(required) :
                              missing(i) /\ \A j \in 1..(i - 1) : ~missing(j)
                 IN Raised("MissingRequiredArgument", <<required[i]>>)
            ELSE IF /\ schema.type = "object"
                    /\ schema.properties_kind # "list"
                    /\ ~additional_allowed(schema)
                    /\ Keys(args) \ schema.properties # {}
            THEN Raised("DisallowedArguments", sorted_keys(Keys(args) \ schema.properties))
            ELSE Returned(<<>>)

(***************************************************************************)
(* estimate_tokens: the length of json.dumps(document, sort_keys=True) of  *)
(* each tool document, summed and divided by 4.  A description is held as  *)
(* its length.                                                             *)
(***************************************************************************)
\* len('{"description": "", "input_schema": , "name": ""}')
DocOverhead == 49

RECURSIVE SumSeq(_)
SumSeq(ns) == IF ns = <<>> THEN 0 ELSE ns[1] + SumSeq(Tail(ns))

\* len of a JSON collection of n items of item_chars characters each, ", " between.
CollChars(item_chars, n) == 2 + n * item_chars + (IF n > 1 THEN 2 * (n - 1) ELSE 0)

\* len(json.dumps(schema, sort_keys=True)): '"key": value' for each key present.
SchemaChars(schema) ==
    LET additional ==
            CASE schema.additionalProperties = "absent" -> <<>>
              [] schema.additionalProperties = "false" -> <<29>>
              [] schema.additionalProperties = "true" -> <<28>>
              [] schema.additionalProperties = "empty_schema" -> <<26>>
              [] OTHER -> <<42>>
        properties ==
            CASE schema.properties_kind = "absent" -> <<>>
              [] schema.properties_kind = "mapping" ->
                     <<14 + CollChars(7, Cardinality(schema.properties))>>
              [] OTHER -> <<16>>
        required ==
            IF schema.required_present
            THEN <<12 + CollChars(3, Len(schema.required))>>
            ELSE <<>>
        type == IF schema.type = "absent" THEN <<>> ELSE <<16>>
        items == additional \o properties \o required \o type
    IN 2 + SumSeq(items) + (IF Len(items) > 1 THEN 2 * (Len(items) - 1) ELSE 0)

DocChars(tool) ==
    DocOverhead + tool.description + SchemaChars(tool.input_schema) + Len(tool.public_name)

estimate_tokens(exposed) ==
    SumSeq([i \in 1..Len(exposed) |-> DocChars(exposed[i])]) \div 4

(***************************************************************************)
(* build_server                                                            *)
(***************************************************************************)
BaseHealthName == <<"h", "e", "a", "l", "t", "h">>

HealthUpstreamName == <<"_", "_", "h", "e", "a", "l", "t", "h", "_", "_">>

\* {"type": "object", "properties": {}, "required": []}
HealthSchema == Schema("object", "mapping", {}, TRUE, <<>>, "absent")

health_name(cfg0) ==
    IF Truthy(cfg0.rules.rename_prefix)
    THEN cfg0.rules.rename_prefix[1] \o BaseHealthName
    ELSE BaseHealthName

PublicNames(tools) == {tools[i].public_name : i \in 1..Len(tools)}

\* Faulty variant: the map is keyed by the upstream names.
ToolMap_by_upstream_name(tools) ==
    [n \in {tools[i].upstream_name : i \in 1..Len(tools)} |->
        tools[CHOOSE i \in 1..Len(tools) :
                  /\ tools[i].upstream_name = n
                  /\ \A j \in (i + 1)..Len(tools) : tools[j].upstream_name # n]]

\* {tool.public_name: tool for tool in tools}: a later entry replaces an earlier one.
ToolMap(tools) ==
    [n \in PublicNames(tools) |->
        tools[CHOOSE i \in 1..Len(tools) :
                  /\ tools[i].public_name = n
                  /\ \A j \in (i + 1)..Len(tools) : tools[j].public_name # n]]

FilterApplication(tools, token_estimate, local_handlers, health_checker) ==
    [built |-> TRUE,
     exposed_tools |-> tools,
     token_estimate |-> token_estimate,
     local_handlers |-> local_handlers,
     tool_map |-> ToolMap(tools),
     health_checker |-> health_checker]

NoHealthChecker == [present |-> FALSE, exposed_tools |-> <<>>, token_estimate |-> 0]

HealthChecker(exposed_names, token_estimate) ==
    [present |-> TRUE, exposed_tools |-> exposed_names, token_estimate |-> token_estimate]

\* Faulty variant: the health name is looked up among the renamed names of the whole
\* upstream catalog, filtered-out tools included.
build_server_checks_upstream(cfg0, listing) ==
    IF ~listing.ok THEN listing
    ELSE LET f == filter_tools(listing.value, cfg0.rules)
         IN IF ~f.ok THEN f
            ELSE LET exposed == f.value
                     token_estimate ==
                         IF cfg0.show_token_estimates THEN estimate_tokens(exposed) ELSE 0
                 IN IF cfg0.include_health_tool
                    THEN IF \E k \in 1..Len(listing.value) :
                               OrEmpty(cfg0.rules.rename_prefix) \o listing.value[k].name
                                   = health_name(cfg0)
                         THEN Raised("HealthNameCollision", <<health_name(cfg0)>>)
                         ELSE LET health_tool ==
                                      [public_name |-> health_name(cfg0),
                                       upstream_name |-> HealthUpstreamName,
                                       description |-> 54,
                                       input_schema |-> HealthSchema]
                                  names == [i \in 1..Len(exposed) |-> exposed[i].public_name]
                              IN Returned(FilterApplication(
                                     Append(exposed, health_tool), token_estimate,
                                     {health_name(cfg0)},
                                     HealthChecker(names, token_estimate)))
                    ELSE Returned(FilterApplication(exposed, token_estimate, {},
                                                    NoHealthChecker))

\* listing is what upstream_client.list_tools() gave: the catalog, or a raised error.
build_server(cfg0, listing) ==
    IF ~listing.ok THEN listing
    ELSE LET f == filter_tools(listing.value, cfg0.rules)
         IN IF ~f.ok THEN f
            ELSE LET exposed == f.value
                     token_estimate ==
                         IF cfg0.show_token_estimates THEN estimate_tokens(exposed) ELSE 0
                 IN IF cfg0.include_health_tool
                    THEN IF health_name(cfg0) \in PublicNames(exposed)
                         THEN Raised("HealthNameCollision", <<health_name(cfg0)>>)
                         ELSE LET health_tool ==
                                      [public_name |-> health_name(cfg0),
                                       upstream_name |-> HealthUpstreamName,
                                       description |-> 54,
                                       input_schema |-> HealthSchema]
                                  names == [i \in 1..Len(exposed) |-> exposed[i].public_name]
                              IN Returned(FilterApplication(
                                     Append(exposed, health_tool), token_estimate,
                                     {health_name(cfg0)},
                                     HealthChecker(names, token_estimate)))
                    ELSE Returned(FilterApplication(exposed, token_estimate, {},
                                                    NoHealthChecker))

(***************************************************************************)
(* FilterApplication.list_public_tools and call_tool                       *)
(***************************************************************************)
list_public_tools(a) ==
    [i \in 1..Len(a.exposed_tools) |->
        ToolSchema(a.exposed_tools[i].public_name, a.exposed_tools[i].description,
                   a.exposed_tools[i].input_schema)]

\* call_tool up to its first await: what it raises, or where it dispatches.
Dispatch(route, upstream_name, error) ==
    [route |-> route, upstream_name |-> upstream_name, error |-> error]

\* Faulty variant: the public name is forwarded in place of the upstream name.
call_tool_public_name(a, name, args) ==
    IF name \notin DOMAIN a.tool_map
    THEN Dispatch("raise", <<>>, Raised("ToolNotExposed", <<name>>))
    ELSE LET tool == a.tool_map[name]
             v == _validate_arguments(tool.input_schema, args)
         IN IF ~v.ok THEN Dispatch("raise", <<>>, v)
            ELSE IF name \in a.local_handlers THEN Dispatch("local", <<>>, NoError)
            ELSE Dispatch("forward", name, NoError)

\* Faulty variant: a name that is not exposed is forwarded when the upstream has it.
call_tool_upstream_lookup(a, name, args) ==
    IF name \notin DOMAIN a.tool_map
    THEN IF \E i \in 1..Len(upstream_tools) : upstream_tools[i].name = name
         THEN Dispatch("forward", name, NoError)
         ELSE Dispatch("raise", <<>>, Raised("ToolNotExposed", <<name>>))
    ELSE LET tool == a.tool_map[name]
             v == _validate_arguments(tool.input_schema, args)
         IN IF ~v.ok THEN Dispatch("raise", <<>>, v)
            ELSE IF name \in a.local_handlers THEN Dispatch("local", <<>>, NoError)
            ELSE Dispatch("forward", tool.upstream_name, NoError)

\* Faulty variant: the arguments are not validated before the call is dispatched.
call_tool_unvalidated(a, name, args) ==
    IF name \notin DOMAIN a.tool_map
    THEN Dispatch("raise", <<>>, Raised("ToolNotExposed", <<name>>))
    ELSE IF name \in a.local_handlers THEN Dispatch("local", <<>>, NoError)
    ELSE Dispatch("forward", a.tool_map[name].upstream_name, NoError)

\* Faulty variant: a local tool is forwarded to the gateway like any other.
call_tool_forwards_local(a, name, args) ==
    IF name \notin DOMAIN a.tool_map
    THEN Dispatch("raise", <<>>, Raised("ToolNotExposed", <<name>>))
    ELSE LET tool == a.tool_map[name]
             v == _validate_arguments(tool.input_schema, args)
         IN IF ~v.ok THEN Dispatch("raise", <<>>, v)
            ELSE Dispatch("forward", tool.upstream_name, NoError)

call_tool(a, name, args) ==
    IF name \notin DOMAIN a.tool_map
    THEN Dispatch("raise", <<>>, Raised("ToolNotExposed", <<name>>))
    ELSE LET tool == a.tool_map[name]
             v == _validate_arguments(tool.input_schema, args)
         IN IF ~v.ok THEN Dispatch("raise", <<>>, v)
            ELSE IF name \in a.local_handlers THEN Dispatch("local", <<>>, NoError)
            ELSE Dispatch("forward", tool.upstream_name, NoError)

\* HealthChecker.report and handle: probe_ok is whether upstream.list_tools() returned.
report(h, probe_ok) ==
    [upstream_ok |-> probe_ok,
     exposed_tools |-> sorted(h.exposed_tools),
     tool_count |-> Len(h.exposed_tools),
     token_estimate |-> h.token_estimate]

\* Faulty variant: a failed probe is raised to the caller.
handle_propagates(h, probe_ok) ==
    IF probe_ok THEN Returned(<<[type |-> "text", text |-> report(h, probe_ok)]>>)
    ELSE Raised("UpstreamUnavailable", <<>>)

handle(h, probe_ok) == Returned(<<[type |-> "text", text |-> report(h, probe_ok)]>>)

\* Faulty variant: a raised gateway error is translated into an error of the filter.
forward_result_translated(response) ==
    IF response.ok THEN response ELSE Raised("ForwardFailed", <<response.kind>>)

\* `return await self.upstream.call_tool(...)`: what the gateway returned or raised.
forward_result(response) == response

(***************************************************************************)
(* Inputs of the build and serve phases                                    *)
(***************************************************************************)
MaxCalls == 2

\* {"type": "object", "properties": {"x": {}}, "required": [], "additionalProperties": false}
StrictSchema == Schema("object", "mapping", {"x"}, TRUE, <<>>, "false")

\* {}
EmptySchema == Schema("absent", "absent", {}, FALSE, <<>>, "absent")

\* {"type": "object"}
ObjectSchema == Schema("object", "absent", {}, FALSE, <<>>, "absent")

ServeNames == {NameA, NameB, NameAB, BaseHealthName}

SchemaOf(name) ==
    CASE name = NameA -> SqlSchema
      [] name = NameB -> StrictSchema
      [] name = NameAB -> EmptySchema
      [] OTHER -> ObjectSchema

\* The upstream catalogs served: empty, plain, one whose renamed tool takes the name
\* of another upstream tool, one with a tool called health, one with a duplicate.
ServeCatalogs ==
    {[i \in 1..Len(ns) |-> ToolSchema(ns[i], i, SchemaOf(ns[i]))] :
        ns \in {<<>>, <<NameA, NameB>>, <<NameB, NameAB>>, <<NameA, BaseHealthName>>,
                <<NameB, NameB>>}}

\* Allow everything; allow a by name; deny every name starting with a; a pattern
\* that does not compile.
ServeRules ==
    {AllowRules(r[1], r[2], r[3], pre) :
        r \in {<<<<>>, <<>>, <<>>>>,
               <<<<NameA>>, <<>>, <<>>>>,
               <<<<>>, <<>>, <<<<"^", "a">>>>>>,
               <<<<>>, <<<<"(">>>>, <<>>>>},
        pre \in {<<>>, <<NameA>>}}

\* The catalog after the upstream dropped its first tool and added a new one.
ChangedCatalog(tools) ==
    (IF tools = <<>> THEN <<>> ELSE Tail(tools))
        \o <<ToolSchema(NameAB, Len(tools) + 1, ObjectSchema)>>

\* What Upstream.list_tools gives a health probe: the catalog as it was at build,
\* the catalog the upstream has changed to since, or a raised transport error.
ProbeResults(tools) ==
    {Returned(tools), Returned(ChangedCatalog(tools)), Raised("UpstreamUnavailable", <<>>)}

Args(is_mapping, items) == [is_mapping |-> is_mapping, items |-> items]

NoArgs == Args(FALSE, {})

\* {} and {"x": 1, "y": 2}
ArgsUniverse == {Args(TRUE, {}), Args(TRUE, {<<"x", 1>>, <<"y", 2>>})}

\* The names a client calls: the upstream tool names, and health under the prefix
\* of the configuration.
CallNames == {NameA, NameB, NameAB, health_name(cfg)}

\* What Upstream.call_tool gives back: a payload, or a raised transport error.
UpstreamResults == {Returned(<<"content">>), Raised("UpstreamCallFailed", <<>>)}

CallIds == 1..MaxCalls

Call(pc, name, args, response, result) ==
    [pc |-> pc, name |-> name, args |-> args, response |-> response, result |-> result]

IdleCall == Call("idle", <<>>, NoArgs, NotRun, NotRun)

GatewayCall(op, by, name, args) == [op |-> op, by |-> by, name |-> name, args |-> args]

(***************************************************************************)
(* Build, then Serve                                                       *)
(***************************************************************************)
Init ==
    /\ upstream_tools \in ServeCatalogs
    /\ \E r \in ServeRules, health \in BOOLEAN, tokens \in BOOLEAN :
          \* the token estimate is reported by the health tool only
          /\ tokens => health
          /\ cfg = ServerConfig(r, health, tokens)
    /\ phase = "start"
    /\ filtered = NotRun
    /\ build_error = NoError
    /\ app = NoApp
    /\ calls = [id \in CallIds |-> IdleCall]
    /\ upstream_calls = <<>>
    /\ listed = NotRun
    /\ inputs = NoInputs
    /\ output = NotRun

\* Faulty variant: when build_server fails, an application with an empty catalog
\* is served in its place.
Build_degraded ==
    /\ phase = "start"
    /\ \E listing \in {Returned(upstream_tools), Raised("UpstreamUnavailable", <<>>)} :
          LET built == build_server(cfg, listing)
          IN IF built.ok
             THEN /\ app' = built.value
                  /\ phase' = "serving"
                  /\ UNCHANGED build_error
             ELSE /\ build_error' = built
                  /\ phase' = "serving"
                  /\ app' = FilterApplication(<<>>, 0, {}, NoHealthChecker)
    /\ upstream_calls' = Append(upstream_calls, GatewayCall("list_tools", 0, <<>>, NoArgs))
    /\ UNCHANGED <<cfg, upstream_tools, filtered, calls, listed, inputs, output>>

\* build_server: one list_tools call on the gateway, then filtering and registration.
Build ==
    /\ phase = "start"
    /\ \E listing \in {Returned(upstream_tools), Raised("UpstreamUnavailable", <<>>)} :
          LET built == build_server(cfg, listing)
          IN IF built.ok
             THEN /\ app' = built.value
                  /\ phase' = "serving"
                  /\ UNCHANGED build_error
             ELSE /\ build_error' = built
                  /\ phase' = "failed"
                  /\ UNCHANGED app
    /\ upstream_calls' = Append(upstream_calls, GatewayCall("list_tools", 0, <<>>, NoArgs))
    /\ UNCHANGED <<cfg, upstream_tools, filtered, calls, listed, inputs, output>>

\* call_tool up to its first await: lookup, validation, and the gateway invocation.
CallTool(id, name, args) ==
    /\ phase = "serving"
    /\ calls[id].pc = "idle"
    /\ \A j \in 1..(id - 1) : calls[j].pc # "idle"
    /\ LET d == call_tool(app, name, args)
       IN CASE d.route = "raise" ->
                  /\ calls' = [calls EXCEPT ![id] = Call("done", name, args, NotRun, d.error)]
                  /\ UNCHANGED upstream_calls
            [] d.route = "forward" ->
                  /\ calls' = [calls EXCEPT ![id] = Call("awaiting", name, args, NotRun, NotRun)]
                  /\ upstream_calls' =
                         Append(upstream_calls, GatewayCall("call_tool", id, d.upstream_name, args))
            [] OTHER ->
                  /\ calls' = [calls EXCEPT ![id] = Call("probing", name, args, NotRun, NotRun)]
                  /\ upstream_calls' =
                         Append(upstream_calls, GatewayCall("list_tools", id, <<>>, NoArgs))
    /\ UNCHANGED <<cfg, upstream_tools, phase, filtered, build_error, app,
                   listed, inputs, output>>

\* Faulty variant: an error raised by the gateway ends every call in flight.
UpstreamReturns_fails_all(id, response) ==
    /\ calls[id].pc = "awaiting"
    /\ calls' = [j \in CallIds |->
                    IF j = id
                    THEN Call("done", calls[j].name, calls[j].args, response,
                              forward_result(response))
                    ELSE IF ~response.ok /\ calls[j].pc \in {"awaiting", "probing"}
                    THEN Call("done", calls[j].name, calls[j].args, NotRun, response)
                    ELSE calls[j]]
    /\ UNCHANGED <<cfg, upstream_tools, phase, filtered, build_error, app,
                   upstream_calls, listed, inputs, output>>

\* The awaited upstream.call_tool completes: call_tool returns its outcome.
UpstreamReturns(id, response) ==
    /\ calls[id].pc = "awaiting"
    /\ calls' = [calls EXCEPT ![id] =
                    Call("done", calls[id].name, calls[id].args, response,
                         forward_result(response))]
    /\ UNCHANGED <<cfg, upstream_tools, phase, filtered, build_error, app,
                   upstream_calls, listed, inputs, output>>

\* Faulty variant: a probe that returns is used to filter the catalog again.
ProbeReturns_refilters(id, response) ==
    /\ calls[id].pc = "probing"
    /\ LET rebuilt == build_server(cfg, response)
       IN app' = IF rebuilt.ok THEN rebuilt.value ELSE app
    /\ calls' = [calls EXCEPT ![id] =
                    Call("done", calls[id].name, calls[id].args, response,
                         handle(app'.health_checker, response.ok))]
    /\ UNCHANGED <<cfg, upstream_tools, phase, filtered, build_error, upstream_calls, listed,
                   inputs, output>>

\* The health handler's awaited upstream.list_tools() completes: handle returns the
\* report; the listing itself is dropped.
ProbeReturns(id, response) ==
    /\ calls[id].pc = "probing"
    /\ calls' = [calls EXCEPT ![id] =
                    Call("done", calls[id].name, calls[id].args, response,
                         handle(app.health_checker, response.ok))]
    /\ UNCHANGED <<cfg, upstream_tools, phase, filtered, build_error, app,
                   upstream_calls, listed, inputs, output>>

\* FilterApplication.list_public_tools: no await, the listing is returned in one step.
ListPublicTools ==
    /\ phase = "serving"
    /\ listed' = Returned(list_public_tools(app))
    /\ UNCHANGED <<cfg, upstream_tools, phase, filtered, build_error, app,
                   calls, upstream_calls, inputs, output>>

Next ==
    \/ Build
    \/ ListPublicTools
    \/ \E id \in CallIds, name \in CallNames, args \in ArgsUniverse : CallTool(id, name, args)
    \/ \E id \in CallIds, response \in UpstreamResults : UpstreamReturns(id, response)
    \/ \E id \in CallIds, response \in ProbeResults(upstream_tools) : ProbeReturns(id, response)

Spec == Init /\ [][Next]_vars

(***************************************************************************)
(* _validate_arguments as a pure function, applied to a schema and an      *)
(* argument value drawn from the bounded inputs.                           *)
(***************************************************************************)
MaxRequired == 2

\* properties absent, a list, {} or {"x": {}}.
PropertiesUniverse ==
    {<<"absent", {}>>, <<"list", {}>>, <<"mapping", {}>>, <<"mapping", {"x"}>>}

\* required absent, or a list of up to MaxRequired keys.
RequiredUniverse ==
    {<<FALSE, <<>>>>} \cup {<<TRUE, r>> : r \in SeqsUpTo({"x", "y"}, MaxRequired)}

AdditionalUniverse == {"absent", "true", "false", "empty_schema", "schema"}

ValidateSchemas ==
    {Schema(type, p[1], p[2], r[1], r[2], additional) :
        type \in {"absent", "object", "string"}, p \in PropertiesUniverse,
        r \in RequiredUniverse, additional \in AdditionalUniverse}

\* A value that is not a JSON object, or an object with some of the keys a, x, y.
ValidateArgs ==
    {NoArgs} \cup {Args(TRUE, {<<k, 1>> : k \in ks}) : ks \in SUBSET {"a", "x", "y"}}

ValidateInputs(schema, args) == [schema |-> schema, args |-> args]

ValidateInit ==
    /\ \E schema \in ValidateSchemas, args \in ValidateArgs :
          inputs = ValidateInputs(schema, args)
    /\ output = NotRun
    /\ phase = "validate"
    /\ cfg = ServerConfig(AllowRules(<<>>, <<>>, <<>>, <<>>), FALSE, FALSE)
    /\ upstream_tools = <<>>
    /\ filtered = NotRun
    /\ build_error = NoError
    /\ app = NoApp
    /\ calls = <<>>
    /\ upstream_calls = <<>>
    /\ listed = NotRun

Validate ==
    /\ phase = "validate"
    /\ output' = _validate_arguments(inputs.schema, inputs.args)
    /\ phase' = "validated"
    /\ UNCHANGED <<cfg, upstream_tools, filtered, build_error, app, calls,
                   upstream_calls, listed, inputs>>

ValidateNext == Validate

ValidateSpec == ValidateInit /\ [][ValidateNext]_vars

(***************************************************************************)
(* _FastMCPUpstream.call_tool as a pure function of what the fastmcp       *)
(* client's call_tool returned or raised.  A value is an object (such as a *)
(* CallToolResult) or a dict, each with or without content and with        *)
(* isError absent, true or false, or a plain list of content items.        *)
(***************************************************************************)
MaxContent == 2

ClientValue(shape, has_content, content, isError) ==
    [shape |-> shape, has_content |-> has_content, content |-> content, isError |-> isError]

\* A plain list of content items.
ContentList(items) == ClientValue("list", FALSE, items, "absent")

ContentUniverse == SeqsUpTo({"text", "image", "error text"}, MaxContent)

ClientValues ==
    {ClientValue(shape, TRUE, content, isError) :
        shape \in {"object", "dict"}, content \in ContentUniverse,
        isError \in {"absent", "true", "false"}}
    \cup {ClientValue(shape, FALSE, <<>>, isError) :
              shape \in {"object", "dict"}, isError \in {"absent", "true", "false"}}
    \cup {ContentList(items) : items \in ContentUniverse}

\* What self._client.call_tool gives: a value, or a raised transport error.
ClientResults == {Returned(v) : v \in ClientValues} \cup {Raised("UpstreamCallFailed", <<>>)}

\* result is what the awaited self._client.call_tool returned or raised.
adapter_call_tool(result) ==
    IF ~result.ok THEN result
    ELSE IF result.value.shape \in {"object", "dict"} /\ result.value.has_content
    THEN Returned(ContentList(result.value.content))
    ELSE result

AdapterInputs(result) == [result |-> result]

AdapterInit ==
    /\ \E result \in ClientResults : inputs = AdapterInputs(result)
    /\ output = NotRun
    /\ phase = "adapt"
    /\ cfg = ServerConfig(AllowRules(<<>>, <<>>, <<>>, <<>>), FALSE, FALSE)
    /\ upstream_tools = <<>>
    /\ filtered = NotRun
    /\ build_error = NoError
    /\ app = NoApp
    /\ calls = <<>>
    /\ upstream_calls = <<>>
    /\ listed = NotRun

AdapterCallTool ==
    /\ phase = "adapt"
    /\ output' = adapter_call_tool(inputs.result)
    /\ phase' = "adapted"
    /\ UNCHANGED <<cfg, upstream_tools, filtered, build_error, app, calls,
                   upstream_calls, listed, inputs>>

AdapterNext == AdapterCallTool

AdapterSpec == AdapterInit /\ [][AdapterNext]_vars

(***************************************************************************)
(* _connect_stdio as a pure function of the command, its arguments and     *)
(* the installed fastmcp: "modern" has Client and the stdio transports,    *)
(* "connect_stdio" and "client.connect_stdio" are the two legacy entry     *)
(* points, "none" has no stdio client at all.                              *)
(***************************************************************************)
MaxArgs == 2

CmdNpx == <<"n", "p", "x">>

CmdUv == <<"u", "v">>

CmdUvx == <<"u", "v", "x">>

CmdPython == <<"p", "y", "t", "h", "o", "n">>

CmdScript == <<"s", ".", "p", "y">>

CmdNode == <<"n", "o", "d", "e">>

CommandUniverse == {CmdNpx, CmdUv, CmdUvx, CmdPython, CmdScript, CmdNode}

\* Optional[List[str]]: <<>> is None, <<xs>> is the list xs.
StdioArgsUniverse == {<<>>} \cup {<<xs>> : xs \in SeqsUpTo({"run", "install", "pkg"}, MaxArgs)}

FastmcpUniverse == {"modern", "connect_stdio", "client.connect_stdio", "none"}

\* str.endswith
endswith(s, suffix) ==
    /\ Len(s) >= Len(suffix)
    /\ SubSeq(s, Len(s) - Len(suffix) + 1, Len(s)) = suffix

\* The client that was created: which transport or entry point, and what it was given.
StdioClient(transport, target, args) ==
    [transport |-> transport, target |-> target, args |-> args]

_connect_stdio(fastmcp, command, args0) ==
    LET args == IF args0 = <<>> THEN <<>> ELSE args0[1]
    IN IF fastmcp = "modern"
       THEN IF command = CmdNpx
            THEN IF args = <<>>
                 THEN Raised("ConfigError", <<"npx transport requires a package name">>)
                 ELSE Returned(StdioClient("NpxStdioTransport", <<args[1]>>, Tail(args)))
            ELSE IF endswith(command, <<".", "p", "y">>) \/ command = CmdPython
            THEN IF command = CmdPython /\ args # <<>>
                 THEN Returned(StdioClient("PythonStdioTransport", <<args[1]>>, Tail(args)))
                 ELSE Returned(StdioClient("PythonStdioTransport", command, args))
            ELSE Returned(StdioClient("NodeStdioTransport", command, args))
       ELSE IF fastmcp \in {"connect_stdio", "client.connect_stdio"}
       THEN Returned(StdioClient(fastmcp, command, args))
       ELSE Raised("ConfigError",
                   <<"Installed fastmcp version does not expose a stdio client.">>)

StdioInputs(fastmcp, command, args) == [fastmcp |-> fastmcp, command |-> command, args |-> args]

StdioInit ==
    /\ \E fastmcp \in FastmcpUniverse, command \in CommandUniverse,
          args \in StdioArgsUniverse : inputs = StdioInputs(fastmcp, command, args)
    /\ output = NotRun
    /\ phase = "connect"
    /\ cfg = ServerConfig(AllowRules(<<>>, <<>>, <<>>, <<>>), FALSE, FALSE)
    /\ upstream_tools = <<>>
    /\ filtered = NotRun
    /\ build_error = NoError
    /\ app = NoApp
    /\ calls = <<>>
    /\ upstream_calls = <<>>
    /\ listed = NotRun

ConnectStdio ==
    /\ phase = "connect"
    /\ output' = _connect_stdio(inputs.fastmcp, inputs.command, inputs.args)
    /\ phase' = "connected"
    /\ UNCHANGED <<cfg, upstream_tools, filtered, build_error, app, calls,
                   upstream_calls, listed, inputs>>

StdioNext == ConnectStdio

StdioSpec == StdioInit /\ [][StdioNext]_vars

(***************************************************************************)
(* Properties of the rule engine (FilterSpec)                              *)
(***************************************************************************)
Names(tools) == [i \in 1..Len(tools) |-> tools[i].name]

UpstreamNames(exposed) == [i \in 1..Len(exposed) |-> exposed[i].upstream_name]

\* The name holds an occurrence of the pattern: its literal text at some offset,
\* at the start of the name under "^" and at its end under "$".
ContainsMatch(pat, name) ==
    LET at_start == pat # <<>> /\ pat[1] = "^"
        rest == IF at_start THEN Tail(pat) ELSE pat
        at_end == rest # <<>> /\ rest[Len(rest)] = "$"
        text == IF at_end THEN SubSeq(rest, 1, Len(rest) - 1) ELSE rest
    IN \E off \in 0..Len(name) :
          /\ off + Len(text) <= Len(name)
          /\ SubSeq(name, off + 1, off + Len(text)) = text
          /\ at_start => off = 0
          /\ at_end => off + Len(text) = Len(name)

ContainsAnyMatch(patterns, name) ==
    \E i \in 1..Len(patterns) : ContainsMatch(patterns[i], name)

AllCompile(patterns) == \A i \in 1..Len(patterns) : "(" \notin Range(patterns[i])

Filtered == phase = "filtered"

Rules == cfg.rules

Denied(t) == ContainsAnyMatch(Rules.deny_patterns, t.name)

ExactAllowed(t) == t.name \in Range(Rules.allow_tools)

PatternAllowed(t) == ContainsAnyMatch(Rules.allow_patterns, t.name)

\* C5: with allowExact non-empty, filter exposes exactly the catalog tools named in
\* allowExact and not denied, and its outcome is the same for every allowPatterns:
\* for each allowPatterns it is the outcome of the same rules with no allowPatterns.
C5_ExactIgnoresPatterns ==
    (Filtered /\ Rules.allow_tools # <<>>) =>
        /\ filtered.ok =>
              LET keep(t) == ExactAllowed(t) /\ ~Denied(t)
              IN UpstreamNames(filtered.value) = Names(SelectSeq(upstream_tools, keep))
        /\ filter_tools(upstream_tools, [Rules EXCEPT !.allow_patterns = <<>>]) = filtered

\* An allow pattern matches a catalog tool that allowExact does not name, and the
\* filter left that tool out.
C5_Witness ==
    /\ Filtered
    /\ Rules.allow_tools # <<>>
    /\ filtered.ok
    /\ filtered.value # <<>>
    /\ \E i \in 1..Len(upstream_tools) :
          /\ PatternAllowed(upstream_tools[i])
          /\ ~ExactAllowed(upstream_tools[i])
          /\ ~Denied(upstream_tools[i])
          /\ upstream_tools[i].name \notin Range(UpstreamNames(filtered.value))

\* C6: with allowExact empty and allowPatterns non-empty, the allow step selects
\* exactly the descriptors whose name contains a match of some allow pattern.
C6_PatternSearch ==
    (/\ Filtered
     /\ Rules.allow_tools = <<>>
     /\ Rules.allow_patterns # <<>>
     /\ AllCompile(Rules.allow_patterns)) =>
        /\ allow_step(upstream_tools, Rules) =
               Returned(SelectSeq(upstream_tools, PatternAllowed))
        /\ (filtered.ok /\ Rules.deny_patterns = <<>>) =>
               UpstreamNames(filtered.value) = Names(SelectSeq(upstream_tools, PatternAllowed))

\* The pattern b selected the tool ab: a match inside the name, not of the whole name.
C6_Witness ==
    /\ Filtered
    /\ Rules.allow_tools = <<>>
    /\ Rules.allow_patterns = <<<<"b">>>>
    /\ filtered.ok
    /\ NameAB \in Range(UpstreamNames(filtered.value))
    /\ NameA \in Range(Names(upstream_tools))
    /\ NameA \notin Range(UpstreamNames(filtered.value))

\* C7: with allowExact and allowPatterns both empty, the exposed upstream names are
\* the names of the catalog less the names a deny pattern matches.
C7_AllowAllMinusDeny ==
    (/\ Filtered
     /\ Rules.allow_tools = <<>>
     /\ Rules.allow_patterns = <<>>
     /\ filtered.ok) =>
        LET keep(t) == ~Denied(t)
        IN UpstreamNames(filtered.value) = Names(SelectSeq(upstream_tools, keep))

C7_Witness ==
    /\ Filtered
    /\ Rules.allow_tools = <<>>
    /\ Rules.allow_patterns = <<>>
    /\ filtered.ok
    /\ filtered.value # <<>>
    /\ \E i \in 1..Len(upstream_tools) : Denied(upstream_tools[i])

ExposedNames(outcome) == IF outcome.ok THEN Range(UpstreamNames(outcome.value)) ELSE {}

WithoutDeny == filter_tools(upstream_tools, [Rules EXCEPT !.deny_patterns = <<>>])

\* C8 as stated: no exposed name matches a deny pattern, and the exposed set is a
\* subset of the exposed set of the same rules without deny patterns.
C8_DenySubsetOfNoDenyRun ==
    (Filtered /\ filtered.ok) =>
        /\ \A i \in 1..Len(filtered.value) :
              ~ContainsAnyMatch(Rules.deny_patterns, filtered.value[i].upstream_name)
        /\ ExposedNames(filtered) \subseteq ExposedNames(WithoutDeny)

\* C8, amended: no exposed name matches a deny pattern (names of allowExact
\* included), and the exposed set is a subset of what the allow step selected,
\* and of the exposed set of the same rules without deny patterns whenever that
\* run returns a catalog.
C8_DenyOnlyRemoves ==
    (Filtered /\ filtered.ok) =>
        /\ \A i \in 1..Len(filtered.value) :
              ~ContainsAnyMatch(Rules.deny_patterns, filtered.value[i].upstream_name)
        /\ upstream_tools # <<>> =>
              /\ allow_step(upstream_tools, Rules).ok
              /\ ExposedNames(filtered) \subseteq
                     Range(Names(allow_step(upstream_tools, Rules).value))
        /\ WithoutDeny.ok => ExposedNames(filtered) \subseteq ExposedNames(WithoutDeny)

\* A name of allowExact is denied and left out, while another one is exposed.
C8_Witness ==
    /\ Filtered
    /\ filtered.ok
    /\ filtered.value # <<>>
    /\ WithoutDeny.ok
    /\ \E i \in 1..Len(upstream_tools) :
          ExactAllowed(upstream_tools[i]) /\ Denied(upstream_tools[i])

\* C9 as stated: filter never returns an empty catalog.
C9_NeverReturnsEmpty == (Filtered /\ filtered.ok) => filtered.value # <<>>

\* The descriptors that survive the allow and deny steps.
Survives(t) ==
    /\ Rules.allow_tools # <<>> => ExactAllowed(t)
    /\ (Rules.allow_tools = <<>> /\ Rules.allow_patterns # <<>>) => PatternAllowed(t)
    /\ ~Denied(t)

Survivors == SelectSeq(upstream_tools, Survives)

PatternsCompile ==
    /\ (Rules.allow_tools = <<>>) => AllCompile(Rules.allow_patterns)
    /\ AllCompile(Rules.deny_patterns)

Public(t) == OrEmpty(Rules.rename_prefix) \o t.name

\* Position j of the survivors repeats the public name of an earlier position.
Repeats(j) == \E i \in 1..(j - 1) : Public(Survivors[i]) = Public(Survivors[j])

\* C10: when two survivors share a public name, filter raises NameCollision for the
\* first repeated position in catalog order, naming the public name and both
\* sources; without a repeat every survivor is exposed, none dropped.
C10_CollisionAtFirstDuplicate ==
    (Filtered /\ PatternsCompile /\ Survivors # <<>>) =>
        IF \E j \in 1..Len(Survivors) : Repeats(j)
        THEN LET j == CHOOSE j \in 1..Len(Survivors) :
                          Repeats(j) /\ \A k \in 1..(j - 1) : ~Repeats(k)
                 i == CHOOSE i \in 1..(j - 1) :
                          /\ Public(Survivors[i]) = Public(Survivors[j])
                          /\ \A k \in 1..(i - 1) : Public(Survivors[k]) # Public(Survivors[j])
             IN filtered = Raised("NameCollision",
                                  <<Public(Survivors[j]), Survivors[i].name, Survivors[j].name>>)
        ELSE /\ filtered.ok
             /\ Len(filtered.value) = Len(Survivors)

\* Two different names are each repeated among the survivors, so that which
\* repeat comes first decides the error.
C10_Witness ==
    /\ Filtered
    /\ filtered.kind = "NameCollision"
    /\ \E j, k \in 1..Len(Survivors) :
          /\ Repeats(j)
          /\ Repeats(k)
          /\ Survivors[j].name # Survivors[k].name
          /\ j < k
          /\ filtered.info[1] = Public(Survivors[j])

(***************************************************************************)
(* Properties of the serve phase (Spec)                                    *)
(***************************************************************************)
Serving == phase = "serving"

Started(id) == calls[id].pc # "idle"

\* The gateway invocations made by call id.
GatewayCallsBy(id) == {k \in 1..Len(upstream_calls) : upstream_calls[k].by = id}

Exposed(name) == \E i \in 1..Len(app.exposed_tools) : app.exposed_tools[i].public_name = name

ExposedAs(name) ==
    app.exposed_tools[CHOOSE i \in 1..Len(app.exposed_tools) :
                          app.exposed_tools[i].public_name = name]

UpstreamHas(name) == \E i \in 1..Len(upstream_tools) : upstream_tools[i].name = name

FilteredOut(name) ==
    \E i \in 1..Len(upstream_tools) :
        upstream_tools[i].name = name /\ ~Survives(upstream_tools[i])

\* C1: every call_tool invocation that reaches the gateway carries the name of an
\* upstream tool that the allow rules selected and no deny pattern matches.
C1_ForwardsOnlyAllowedTools ==
    Serving =>
        \A k \in 1..Len(upstream_calls) :
            upstream_calls[k].op = "call_tool" =>
                \E i \in 1..Len(upstream_tools) :
                    /\ upstream_tools[i].name = upstream_calls[k].name
                    /\ Survives(upstream_tools[i])

\* A call under the name of a filtered-out upstream tool reached the gateway: the
\* name is also the public name of an allowed tool, whose name was forwarded.
C1_Witness ==
    /\ Serving
    /\ \E id \in CallIds :
          /\ calls[id].pc = "done"
          /\ FilteredOut(calls[id].name)
          /\ \E k \in GatewayCallsBy(id) :
                /\ upstream_calls[k].op = "call_tool"
                /\ upstream_calls[k].name # calls[id].name

\* C2: a call under a name that is not in the exposed catalog fails with
\* ToolNotExposed and makes no gateway invocation, whatever the upstream has.
C2_UnexposedNameRejected ==
    Serving =>
        \A id \in CallIds :
            (Started(id) /\ ~Exposed(calls[id].name)) =>
                /\ calls[id].pc = "done"
                /\ calls[id].result = Raised("ToolNotExposed", <<calls[id].name>>)
                /\ GatewayCallsBy(id) = {}

\* A filtered-out upstream tool was called with arguments its schema accepts, while
\* the other call was forwarded.
C2_Witness ==
    /\ Serving
    /\ \E id, other \in CallIds :
          /\ Started(id)
          /\ ~Exposed(calls[id].name)
          /\ UpstreamHas(calls[id].name)
          /\ calls[id].args = Args(TRUE, {<<"x", 1>>, <<"y", 2>>})
          /\ calls[id].name = NameA
          /\ \E k \in GatewayCallsBy(other) : upstream_calls[k].op = "call_tool"

ValidationKinds == {"InvalidArguments", "MissingRequiredArgument", "DisallowedArguments"}

MissingRequired(schema, args) ==
    \E i \in 1..Len(schema.required) : \A p \in args.items : p[1] # schema.required[i]

\* C3: a call on an exposed tool that fails validation is finished with the
\* validation error and has made no gateway invocation.
C3_ValidationBeforeForwarding ==
    Serving =>
        \A id \in CallIds :
            /\ (Started(id) /\ calls[id].result.kind \in ValidationKinds) =>
                  GatewayCallsBy(id) = {}
            /\ (/\ Started(id)
                /\ Exposed(calls[id].name)
                /\ MissingRequired(ExposedAs(calls[id].name).input_schema, calls[id].args)) =>
                  /\ calls[id].pc = "done"
                  /\ calls[id].result.kind = "MissingRequiredArgument"
                  /\ GatewayCallsBy(id) = {}

C3_Witness ==
    /\ Serving
    /\ \E id \in CallIds :
          /\ calls[id].pc = "done"
          /\ Exposed(calls[id].name)
          /\ calls[id].result = Raised("MissingRequiredArgument", <<"x">>)
          /\ Len(upstream_calls) = 1

\* The arguments pass the required-keys and the additional-properties checks.
ArgsValid(schema, args) ==
    /\ args.is_mapping
    /\ ~MissingRequired(schema, args)
    /\ (schema.type = "object" /\ schema.additionalProperties = "false") =>
          \A p \in args.items : p[1] \in schema.properties

\* C4: a call on an exposed tool that is not local, with valid arguments, makes
\* exactly one gateway invocation, call_tool with the upstream name (the public
\* name without the rename prefix) and the same arguments, and returns what the
\* gateway returned or raised.
C4_ForwardsOnceUnmodified ==
    Serving =>
        \A id \in CallIds :
            (/\ Started(id)
             /\ Exposed(calls[id].name)
             /\ calls[id].name \notin app.local_handlers
             /\ ArgsValid(ExposedAs(calls[id].name).input_schema, calls[id].args)) =>
                /\ \E k \in 1..Len(upstream_calls) :
                      /\ GatewayCallsBy(id) = {k}
                      /\ upstream_calls[k].op = "call_tool"
                      /\ upstream_calls[k].args = calls[id].args
                      /\ UpstreamHas(upstream_calls[k].name)
                      /\ OrEmpty(Rules.rename_prefix) \o upstream_calls[k].name = calls[id].name
                /\ calls[id].pc \in {"awaiting", "done"}
                /\ calls[id].pc = "done" =>
                      /\ calls[id].response \in UpstreamResults
                      /\ calls[id].result = calls[id].response

\* A renamed tool was called and the gateway's error came back as raised.
C4_Witness ==
    /\ Serving
    /\ Truthy(Rules.rename_prefix)
    /\ \E id \in CallIds :
          /\ calls[id].pc = "done"
          /\ Exposed(calls[id].name)
          /\ calls[id].name \notin app.local_handlers
          /\ calls[id].result = Raised("UpstreamCallFailed", <<>>)
          /\ GatewayCallsBy(id) # {}

(***************************************************************************)
(* Properties of the built catalog (Spec)                                  *)
(***************************************************************************)
HealthOn == cfg.include_health_tool

Synthetic(e) == e.upstream_name = HealthUpstreamName

\* C11: in the catalog of a built application, with the health tool or without
\* it, no two entries have the same public name.
C11_PublicNamesUnique ==
    Serving =>
        \A i, j \in 1..Len(app.exposed_tools) :
            i # j => app.exposed_tools[i].public_name # app.exposed_tools[j].public_name

\* The health tool is registered next to a renamed tool whose public name is the
\* name of another upstream tool.
C11_Witness ==
    /\ Serving
    /\ HealthOn
    /\ Len(app.exposed_tools) = 3
    /\ \E i \in 1..Len(app.exposed_tools) :
          /\ app.exposed_tools[i].public_name = NameAB
          /\ app.exposed_tools[i].upstream_name = NameB

\* C12: every entry of a built catalog other than the health tool has the rename
\* prefix followed by its upstream name as public name (the upstream name itself
\* without a prefix), and its upstream name is a name of the catalog that
\* build_server listed.
C12_RenameIsPrepend ==
    Serving =>
        \A i \in 1..Len(app.exposed_tools) :
            LET e == app.exposed_tools[i]
            IN ~Synthetic(e) =>
                  /\ e.public_name = OrEmpty(Rules.rename_prefix) \o e.upstream_name
                  /\ ~Truthy(Rules.rename_prefix) => e.public_name = e.upstream_name
                  /\ UpstreamHas(e.upstream_name)

\* A renamed tool is exposed next to the health tool, and a later listing of the
\* upstream no longer has it.
C12_Witness ==
    /\ Serving
    /\ HealthOn
    /\ Truthy(Rules.rename_prefix)
    /\ \E i \in 1..Len(app.exposed_tools) :
          /\ ~Synthetic(app.exposed_tools[i])
          /\ app.exposed_tools[i].public_name # app.exposed_tools[i].upstream_name
          /\ \E id \in CallIds :
                /\ calls[id].name \in app.local_handlers
                /\ calls[id].response.ok
                /\ \A k \in 1..Len(calls[id].response.value) :
                      calls[id].response.value[k].name # app.exposed_tools[i].upstream_name

(***************************************************************************)
(* Pattern validation (FilterSpec)                                         *)
(***************************************************************************)
\* The patterns of the rule set, allow before deny, that do not compile.
InvalidPatterns ==
    LET invalid(p) == re_error(p)
    IN SelectSeq(Rules.allow_patterns \o Rules.deny_patterns, invalid)

\* C13: for every catalog, a rule set holding a pattern that does not compile
\* makes filter fail with InvalidPattern naming an offending pattern: no catalog
\* is returned and no other error is raised.
C13_InvalidPatternFailsFast ==
    (Filtered /\ InvalidPatterns # <<>>) =>
        /\ ~filtered.ok
        /\ filtered.kind = "InvalidPattern"
        /\ filtered.info \in {<<p>> : p \in Range(InvalidPatterns)}

(***************************************************************************)
(* Registration of the health tool (Spec)                                  *)
(***************************************************************************)
BuildRan == phase \in {"serving", "failed"}

Listed == build_error.kind # "UpstreamUnavailable"

HealthPublicName == OrEmpty(Rules.rename_prefix) \o BaseHealthName

\* A tool among s, the tools that pass the rules, gets the public name of the
\* health tool.
HealthTaken(s) == \E i \in 1..Len(s) : Public(s[i]) = HealthPublicName

\* Two tools among s get the same public name.
SomeRepeat(s) == \E i, j \in 1..Len(s) : i < j /\ Public(s[i]) = Public(s[j])

\* The rule engine has a catalog to return: the patterns it uses compile, a tool
\* survives and no public name repeats (or the upstream catalog is empty).
RuleEngineReturns(s) ==
    \/ upstream_tools = <<>>
    \/ /\ PatternsCompile
       /\ s # <<>>
       /\ ~SomeRepeat(s)

\* C14: with the health tool enabled, build_server fails with HealthNameCollision
\* exactly when a tool that passed the rules is exposed as prefix + "health"; a
\* filtered-out upstream tool of that name causes no failure, and in a built
\* catalog the health name belongs to the synthetic entry alone, added to the
\* rule engine's catalog without replacing any of its entries.
C14_HealthNameCollision ==
    (BuildRan /\ HealthOn /\ Listed) =>
        LET s == Survivors
        IN /\ (RuleEngineReturns(s) /\ HealthTaken(s)) =>
                 /\ phase = "failed"
                 /\ build_error = Raised("HealthNameCollision", <<HealthPublicName>>)
           /\ build_error.kind = "HealthNameCollision" =>
                 (RuleEngineReturns(s) /\ HealthTaken(s))
           /\ Serving =>
                 /\ Len(app.exposed_tools) = Len(s) + 1
                 /\ \A i \in 1..Len(s) :
                       /\ app.exposed_tools[i].upstream_name = s[i].name
                       /\ app.exposed_tools[i].public_name # HealthPublicName
                 /\ Synthetic(app.exposed_tools[Len(app.exposed_tools)])
                 /\ app.exposed_tools[Len(app.exposed_tools)].public_name = HealthPublicName

\* The upstream tool health, renamed with the prefix, takes the name of the health
\* tool and the build fails.
C14_Witness ==
    /\ phase = "failed"
    /\ HealthOn
    /\ Truthy(Rules.rename_prefix)
    /\ UpstreamHas(BaseHealthName)
    /\ build_error = Raised("HealthNameCollision", <<NameA \o BaseHealthName>>)

(***************************************************************************)
(* The health tool and its report (Spec)                                   *)
(***************************************************************************)
\* The public names of the exposed tools other than the health tool, in catalog order.
RealPublicNames ==
    LET real == SelectSeq(app.exposed_tools, LAMBDA e : ~Synthetic(e))
    IN [i \in 1..Len(real) |-> real[i].public_name]

HealthCall(id) == Started(id) /\ calls[id].name = HealthPublicName

\* The report a finished health call returned.
ReportOf(id) == calls[id].result.value[1].text

Ascending(names) == \A i \in 1..(Len(names) - 1) : StrLess(names[i], names[i + 1])

\* C15: in an application built with the health tool, the health tool is in the
\* exposed catalog and in every listing returned, and every report returned has
\* as exposed_tools the public names of the other exposed tools in ascending
\* order, and as tool_count their number.
C15_HealthListedAndReportsCatalog ==
    (Serving /\ HealthOn) =>
        /\ Exposed(HealthPublicName)
        /\ listed.ok => \E i \in 1..Len(listed.value) : listed.value[i].name = HealthPublicName
        /\ \A id \in CallIds :
              (HealthCall(id) /\ calls[id].pc = "done") =>
                  /\ calls[id].result.ok
                  /\ Ascending(ReportOf(id).exposed_tools)
                  /\ Range(ReportOf(id).exposed_tools) = Range(RealPublicNames)
                  /\ Len(ReportOf(id).exposed_tools) = Len(RealPublicNames)
                  /\ ReportOf(id).tool_count = Len(RealPublicNames)

\* The tools were listed and a report was returned for a catalog of two tools
\* whose public names are not in ascending order in the catalog.
C15_Witness ==
    /\ Serving
    /\ HealthOn
    /\ listed.ok
    /\ ~Ascending(RealPublicNames)
    /\ \E id \in CallIds :
          /\ HealthCall(id)
          /\ calls[id].pc = "done"
          /\ ReportOf(id).tool_count = 2

\* C16: a call of the health tool makes one list_tools probe on the gateway and
\* returns a report, never an error, whose upstream_ok tells whether that probe
\* returned; list_tools is invoked by build_server once and otherwise only by
\* health calls, one probe each.
C16_HealthAlwaysReports ==
    (Serving /\ HealthOn) =>
        /\ \A id \in CallIds :
              HealthCall(id) =>
                  /\ calls[id].pc \in {"probing", "done"}
                  /\ Cardinality(GatewayCallsBy(id)) = 1
                  /\ calls[id].pc = "done" =>
                        /\ calls[id].result.ok
                        /\ calls[id].response.kind \in {"none", "UpstreamUnavailable"}
                        /\ ReportOf(id).upstream_ok = calls[id].response.ok
        /\ \A k \in 1..Len(upstream_calls) :
              upstream_calls[k].op = "list_tools" =>
                  \/ k = 1 /\ upstream_calls[k].by = 0
                  \/ upstream_calls[k].by \in CallIds /\ HealthCall(upstream_calls[k].by)

\* One health call reported a probe that failed, another one that succeeded.
C16_Witness ==
    /\ Serving
    /\ HealthOn
    /\ \E id, other \in CallIds :
          /\ HealthCall(id)
          /\ calls[id].pc = "done"
          /\ calls[id].response = Raised("UpstreamUnavailable", <<>>)
          /\ calls[id].result.ok
          /\ ReportOf(id).upstream_ok = FALSE
          /\ HealthCall(other)
          /\ calls[other].pc = "done"
          /\ ReportOf(other).upstream_ok = TRUE

(***************************************************************************)
(* Local handlers and the gateway (Spec)                                   *)
(***************************************************************************)
LocalCall(id) == Started(id) /\ calls[id].name \in app.local_handlers

\* C17 as stated: a call of a tool with a local handler makes no gateway
\* invocation, neither call_tool nor list_tools.
C17_LocalCallNoGateway ==
    Serving => \A id \in CallIds : LocalCall(id) => GatewayCallsBy(id) = {}

\* C17: a call of a tool with a local handler is never forwarded: the gateway sees
\* no call_tool from it, only the one list_tools probe of the health report, and
\* the result is the handler's report, which takes from the probe only whether it
\* returned.
C17_LocalCallNeverForwarded ==
    Serving =>
        \A id \in CallIds :
            LocalCall(id) =>
                /\ \A k \in GatewayCallsBy(id) :
                      upstream_calls[k] = GatewayCall("list_tools", id, <<>>, NoArgs)
                /\ Cardinality(GatewayCallsBy(id)) <= 1
                /\ calls[id].pc = "done" =>
                      /\ calls[id].result.ok
                      /\ calls[id].result.value[1].type = "text"
                      /\ ReportOf(id).upstream_ok = calls[id].response.ok
                      /\ ReportOf(id).tool_count = Len(app.exposed_tools) - 1

\* The health tool was called and answered while another call was forwarded to
\* the gateway.
C17_Witness ==
    /\ Serving
    /\ \E id, other \in CallIds :
          /\ LocalCall(id)
          /\ calls[id].pc = "done"
          /\ GatewayCallsBy(id) # {}
          /\ \E k \in GatewayCallsBy(other) : upstream_calls[k].op = "call_tool"

(***************************************************************************)
(* Build failures (Spec)                                                   *)
(***************************************************************************)
BuildFailureKinds ==
    {"UpstreamUnavailable", "InvalidPattern", "NoToolsRemaining", "NameCollision",
     "HealthNameCollision"}

\* A serve operation has run: a call was started, a listing returned, or the
\* gateway was asked to call a tool.
Served ==
    \/ \E id \in CallIds : Started(id)
    \/ listed # NotRun
    \/ \E k \in 1..Len(upstream_calls) : upstream_calls[k].op = "call_tool"

\* The listed catalog and the configuration make a step of build_server raise.
BuildMustFail ==
    /\ upstream_tools # <<>>
    /\ LET s == Survivors
       IN \/ ~PatternsCompile
          \/ s = <<>>
          \/ SomeRepeat(s)
          \/ HealthOn /\ HealthTaken(s)

\* C18: a build that raises (the listing failed, or InvalidPattern,
\* NoToolsRemaining, NameCollision or HealthNameCollision) returns no
\* application: nothing is listed, no call is started and the gateway is never
\* asked to call a tool; serve operations run only on a built application.
C18_FailedBuildPublishesNothing ==
    /\ build_error # NoError => phase = "failed"
    /\ (BuildRan /\ (~Listed \/ BuildMustFail)) => phase = "failed"
    /\ phase = "failed" =>
          /\ build_error.kind \in BuildFailureKinds
          /\ app = NoApp
          /\ ~Served
          /\ upstream_calls = <<GatewayCall("list_tools", 0, <<>>, NoArgs)>>
    /\ Served => (Serving /\ app.built /\ build_error = NoError)

\* The rules removed every tool of a catalog that was listed: the build failed.
C18_Witness ==
    /\ phase = "failed"
    /\ build_error = Raised("NoToolsRemaining", <<>>)
    /\ upstream_tools # <<>>
    /\ Len(upstream_calls) = 1

(***************************************************************************)
(* The built application is immutable (Spec)                               *)
(***************************************************************************)
\* C19: once the application is built, no step (a listing, a call that returns or
\* raises, a health call whose probe lists a changed upstream catalog) changes its exposed
\* catalog, handler map, health snapshot or token estimate; every listing returns
\* the catalog as built, and every report carries the token estimate and the
\* exposed-tool snapshot as built.
C19_BuiltApplicationImmutable ==
    [][Serving =>
          /\ phase' = "serving"
          /\ app' = app
          /\ listed' # NotRun => listed' = Returned(list_public_tools(app))
          /\ listed # NotRun => listed' = listed
          /\ \A id \in CallIds :
                (calls'[id].pc = "done" /\ calls'[id].name \in app.local_handlers) =>
                    /\ calls'[id].result.ok
                    /\ calls'[id].result.value[1].text.token_estimate = app.token_estimate
                    /\ calls'[id].result.value[1].text.exposed_tools
                           = sorted(app.health_checker.exposed_tools)]_vars

\* The tools were listed, and two health calls returned their reports, one probe
\* answered with the catalog as listed at build and one with the changed catalog,
\* for an application with a token estimate.
C19_Witness ==
    /\ Serving
    /\ listed.ok
    /\ app.token_estimate > 0
    /\ \E id, other \in CallIds :
          /\ LocalCall(id)
          /\ LocalCall(other)
          /\ calls[id].response = Returned(upstream_tools)
          /\ calls[other].response = Returned(ChangedCatalog(upstream_tools))

(***************************************************************************)
(* Calls are independent of one another (Spec)                             *)
(***************************************************************************)
Failed(id) == calls[id].pc = "done" /\ ~calls[id].result.ok

\* Where call id stands and what it returned or raised agree with its own name,
\* arguments and gateway response.
OwnOutcome(id) ==
    LET name == calls[id].name
        args == calls[id].args
    IN IF ~Exposed(name)
       THEN /\ calls[id].pc = "done"
            /\ calls[id].result = Raised("ToolNotExposed", <<name>>)
       ELSE IF ~ArgsValid(ExposedAs(name).input_schema, args)
       THEN /\ calls[id].pc = "done"
            /\ calls[id].result.kind \in ValidationKinds
       ELSE IF name \in app.local_handlers
       THEN /\ calls[id].pc \in {"probing", "done"}
            /\ calls[id].pc = "done" =>
                  /\ calls[id].result.ok
                  /\ ReportOf(id).upstream_ok = calls[id].response.ok
       ELSE /\ calls[id].pc \in {"awaiting", "done"}
            /\ calls[id].pc = "done" =>
                  /\ calls[id].response \in UpstreamResults
                  /\ calls[id].result = calls[id].response

\* C20: whatever the interleaving of the calls at their await points, each call
\* that was started stands or ended as its own name, arguments and gateway
\* response decide, whether other calls failed or not, and a failed call leaves
\* the application serving.
C20_ErrorsArePerCall ==
    /\ \A id \in CallIds : Started(id) => (Serving /\ app.built /\ OwnOutcome(id))
    /\ (\E id \in CallIds : Failed(id)) => (Serving /\ build_error = NoError)

\* With a call in flight at the gateway, a later call failed there; after a
\* listing the first call is still awaiting its own response.
C20_Witness ==
    /\ Serving
    /\ listed.ok
    /\ \E id, other \in CallIds :
          /\ id < other
          /\ calls[id].pc = "awaiting"
          /\ Failed(other)
          /\ calls[other].result = Raised("UpstreamCallFailed", <<>>)

(***************************************************************************)
(* Properties of argument validation (ValidateSpec)                        *)
(***************************************************************************)
Validated == phase = "validated"

\* The keys of the arguments that the schema's properties do not name.
ExtraKeys == Keys(inputs.args) \ inputs.schema.properties

AscendingKeys(keys) == \A i \in 1..(Len(keys) - 1) : Ord(keys[i]) < Ord(keys[i + 1])

\* The positions of the required list whose key the arguments lack.
MissingAt ==
    {i \in 1..Len(inputs.schema.required) :
        \A p \in inputs.args.items : p[1] # inputs.schema.required[i]}

\* C21: validation fails over extra keys only for a schema of type object whose
\* additionalProperties is false, and then with DisallowedArguments listing every
\* extra key in ascending order; with additionalProperties absent, true or any
\* other value, extra keys never fail.
C21_ExtrasRejectedOnlyWhenFalse ==
    Validated =>
        /\ output.kind = "DisallowedArguments" =>
              /\ inputs.schema.type = "object"
              /\ inputs.schema.additionalProperties = "false"
              /\ Range(output.info) = ExtraKeys
              /\ Len(output.info) = Cardinality(ExtraKeys)
              /\ AscendingKeys(output.info)
        /\ (/\ inputs.args.is_mapping
            /\ MissingAt = {}
            /\ inputs.schema.type = "object"
            /\ inputs.schema.properties_kind # "list"
            /\ inputs.schema.additionalProperties = "false"
            /\ ExtraKeys # {}) => output.kind = "DisallowedArguments"

\* C24: when the arguments are a JSON object lacking required keys, validation
\* fails with MissingRequiredArgument naming the key at the first such position
\* of the schema's required list, whether or not the arguments also hold keys that
\* additionalProperties false forbids; no other input gives that error.
C24_RequiredCheckedFirstInOrder ==
    (Validated /\ inputs.args.is_mapping) =>
        /\ MissingAt # {} =>
              LET first == CHOOSE i \in MissingAt : \A j \in MissingAt : i <= j
              IN output = Raised("MissingRequiredArgument",
                                 <<inputs.schema.required[first]>>)
        /\ output.kind = "MissingRequiredArgument" => MissingAt # {}

\* Both keys of the required list [y, x] are missing and the only key given is
\* one that the schema forbids: the error names y.
C24_Witness ==
    /\ Validated
    /\ inputs.schema.required = <<"y", "x">>
    /\ inputs.schema.type = "object"
    /\ inputs.schema.properties_kind = "mapping"
    /\ inputs.schema.additionalProperties = "false"
    /\ Keys(inputs.args) = {"a"}
    /\ inputs.args.is_mapping
    /\ output = Raised("MissingRequiredArgument", <<"y">>)

(***************************************************************************)
(* Properties of the gateway adapter (AdapterSpec)                         *)
(***************************************************************************)
Adapted == phase = "adapted"

\* C22: the adapter's call_tool hands back exactly what the upstream client
\* returned, an error-shaped value with its isError flag included: nothing is
\* extracted from it and nothing dropped.
C22_AdapterReturnsPayloadUnmodified ==
    Adapted => output = inputs.result

(***************************************************************************)
(* Properties of the stdio connector (StdioSpec)                           *)
(***************************************************************************)
Connected == phase = "connected"

\* The argument list the connector works with: None counts as empty.
GivenArgs == IF inputs.args = <<>> THEN <<>> ELSE inputs.args[1]

\* C23: the stdio connector creates no client for a malformed uv or uvx command:
\* uvx without arguments fails with a ConfigError asking for a package name, uv
\* whose first argument is not run (or is missing) with one asking for the run
\* subcommand, and uv run with nothing after it with one asking for a script or
\* module name.
C23_UvCommandsValidated ==
    Connected =>
        /\ (inputs.command = CmdUvx /\ GivenArgs = <<>>) =>
              output = Raised("ConfigError", <<"uvx transport requires a package name">>)
        /\ (inputs.command = CmdUv /\ (GivenArgs = <<>> \/ GivenArgs[1] # "run")) =>
              output = Raised("ConfigError", <<"uv transport requires 'run' subcommand">>)
        /\ (inputs.command = CmdUv /\ GivenArgs = <<"run">>) =>
              output = Raised("ConfigError", <<"uv run requires a script or module name">>)

(***************************************************************************)
(* Listing and calling agree (Spec)                                        *)
(***************************************************************************)
\* The names list_public_tools returns for the application.
ListedNames == {t.name : t \in Range(list_public_tools(app))}

NotExposedError(result) == result.kind = "ToolNotExposed"

\* C25: for a built application the names listed are exactly the names a call
\* does not reject with ToolNotExposed; the keys of the lookup map are the public
\* names of the exposed catalog, and the local handlers are keys of it: none, or
\* the health name alone when the health tool is enabled.
C25_ListingAndCallingAgree ==
    Serving =>
        /\ DOMAIN app.tool_map = {e.public_name : e \in Range(app.exposed_tools)}
        /\ DOMAIN app.tool_map = ListedNames
        /\ listed.ok => {t.name : t \in Range(listed.value)} = ListedNames
        /\ app.local_handlers \subseteq DOMAIN app.tool_map
        /\ app.local_handlers = IF HealthOn THEN {HealthPublicName} ELSE {}
        /\ \A name \in CallNames, args \in ArgsUniverse :
              name \in ListedNames <=> ~NotExposedError(call_tool(app, name, args).error)
        /\ \A id \in CallIds :
              Started(id) =>
                  (calls[id].name \in ListedNames <=> ~NotExposedError(calls[id].result))

\* With a prefix and the health tool, the tools were listed; a call under the
\* upstream's own name of a tool was rejected and a call under a listed name
\* returned.
C25_Witness ==
    /\ Serving
    /\ HealthOn
    /\ Truthy(Rules.rename_prefix)
    /\ listed.ok
    /\ \E id, other \in CallIds :
          /\ NotExposedError(calls[id].result)
          /\ UpstreamHas(calls[id].name)
          /\ calls[other].pc = "done"
          /\ calls[other].result.ok
          /\ calls[other].name \in ListedNames
          /\ calls[other].name \notin app.local_handlers

====
